---- MODULE Spec2Model ----
(***************************************************************************)
(* Model of the AI-response acquisition pipeline of AI_ChatBot             *)
(* (src/AI_ChatBot/src/App.jsx): the usePuterAI hook (provider script      *)
(* probe, callDirectAPI, callPuterAI) and the App handlers that drive it   *)
(* (sendMessage, handleKey, simulateStreaming, handleInputChange).          *)
(*                                                                         *)
(* A JavaScript string is modelled by the list of words that               *)
(* String.prototype.split(" ") gives for it: "" is <<"">>, "a b" is        *)
(* <<"a", "b">>.  The empty sequence <<>> stands for undefined.  A word     *)
(* holds no blank, so a list whose first element holds one is the word     *)
(* list of no string: such lists stand for the values that are not         *)
(* strings.  A word is a TLA+ string and stands for itself, character by   *)
(* character.                                                              *)
(* Emoji prefixes of the user-facing messages are left out.                *)
(***************************************************************************)
EXTENDS Integers, Sequences, FiniteSets, TLC

\* ------------------------------------------------------------------ bounds
\* largest configured value of REACT_APP_PUTER_MAX_RETRIES that is explored
MaxRetriesBound == 3
\* number of turns (a prompt, its call chain, its reveal) in one behaviour
MaxTurns == 1

\* ------------------------------------------------------- program constants
\* const maxRetries = 3 of the script-load effect
maxRetries == 3

\* PUTER_RETRY_DELAY: parseInt(process.env.REACT_APP_PUTER_RETRY_DELAY) || 1000
PUTER_RETRY_DELAY == 1000

ErrorTypes ==
  [NETWORK    |-> "NETWORK_ERROR",
   TIMEOUT    |-> "TIMEOUT_ERROR",
   AUTH       |-> "AUTHENTICATION_ERROR",
   RATE_LIMIT |-> "RATE_LIMIT_ERROR",
   SERVER     |-> "SERVER_ERROR",
   UNKNOWN    |-> "UNKNOWN_ERROR"]

AllErrorTypes == { ErrorTypes[f] : f \in DOMAIN ErrorTypes }

\* ------------------------------------------------------------ JS helpers
Undefined == <<>>
EmptyString == <<"">>

\* the number 5, a value that is not a string
Number5 == <<"typeof number", "5">>

\* typeof v === "string"
IsString(v) == v # Undefined /\ v # Number5

\* JS truthiness of a value: undefined and "" are falsy, 5 is truthy
Truthy(s) == s # Undefined /\ s # EmptyString

\* a || b on string-or-undefined values
OrElse(a, b) == IF Truthy(a) THEN a ELSE b

\* String.prototype.includes(word), on the word list of the message
\* String.prototype.includes on one word: needle occurs in w as a run of
\* consecutive characters
WordIncludes(w, needle) ==
  \E i \in 1..(Len(w) - Len(needle) + 1) :
    SubSeq(w, i, i + Len(needle) - 1) = needle

\* msg.includes(needle) for a needle without blanks: it lies inside one
\* of the words of msg
Includes(msg, needle) == \E i \in 1..Len(msg) : WordIncludes(msg[i], needle)

\* a thrown value: name is error.name, isTypeError is (error instanceof
\* TypeError), type is error.type ("" when undefined), message is
\* error.message
Thrown(name, isTypeError, type, message, status) ==
  [name |-> name, isTypeError |-> isTypeError, type |-> type,
   message |-> message, status |-> status]

\* throw { type, message, status }
TypedError(type, message, status) == Thrown("", FALSE, type, message, status)

\* throw new Error(message)
PlainError(message) == Thrown("Error", FALSE, "", message, -1)

NoError == Thrown("none", FALSE, "", Undefined, -1)

\* ---------------------------------------------------------- callDirectAPI
\* what fetch() can reject with when the network call fails: a TypeError
\* whose message depends on the browser
FetchRejections ==
  { Thrown("TypeError", TRUE, "", <<"Failed", "to", "fetch">>, -1),
    Thrown("TypeError", TRUE, "",
           <<"Failed", "to", "execute", "'fetch'", "on", "'Window':",
             "Invalid", "value">>, -1),
    Thrown("TypeError", TRUE, "", <<"Load", "failed">>, -1) }

\* controller.abort() makes the pending fetch / body read reject with this
AbortError ==
  Thrown("AbortError", FALSE, "", <<"The", "user", "aborted", "a", "request.">>, -1)

Statuses == {200, 401, 429, 500, 503, 504}

IsOk(status) == status >= 200 /\ status <= 299

ServerMessage == <<"quota", "exceeded", "for", "acct-17">>
DirectText == <<"direct", "answer">>
Placeholder == <<"No", "response", "generated">>

\* a response body: json is "invalid" (not JSON), "null" (the JSON value
\* null), "object", or, for a body whose read is cut by the network,
\* "cutFetch" or "cut" after the text of the TypeError the browser gives;
\* the other fields are the members of the object
Body(json, error, content, response, text) ==
  [json |-> json, error |-> error, content |-> content,
   response |-> response, text |-> text]

Bodies ==
  { Body("invalid", Undefined, Undefined, Undefined, Undefined),
    Body("null", Undefined, Undefined, Undefined, Undefined),
    Body("object", Undefined, Undefined, Undefined, Undefined),
    Body("object", ServerMessage, Undefined, Undefined, Undefined),
    Body("object", Undefined, DirectText, Undefined, Undefined),
    Body("object", Undefined, EmptyString, Undefined, DirectText),
    Body("object", Undefined, Undefined, Number5, Undefined),
    Body("cutFetch", Undefined, Undefined, Undefined, Undefined),
    Body("cut", Undefined, Undefined, Undefined, Undefined) }

\* what response.json() rejects with when the connection breaks while the
\* body is read: a TypeError whose message depends on the browser
BodyCutFetch ==
  Thrown("TypeError", TRUE, "",
         <<"NetworkError", "when", "attempting", "to", "fetch", "resource.">>, -1)
BodyCut == Thrown("TypeError", TRUE, "", <<"network", "error">>, -1)

NullDeref ==
  Thrown("TypeError", TRUE, "", <<"Cannot", "read", "properties", "of", "null">>, -1)

\* fullText.split(" ") of a fullText that is not a string
SplitTypeError ==
  Thrown("TypeError", TRUE, "", <<"fullText.split", "is", "not", "a", "function">>, -1)

JsonSyntaxError ==
  Thrown("SyntaxError", FALSE, "", <<"Unexpected", "token">>, -1)

\* the value outcome of a step: a returned text or a thrown error
Returned(text) == [ok |-> TRUE, text |-> text, err |-> NoError]
Threw(err) == [ok |-> FALSE, text |-> Undefined, err |-> err]

\* variant: case 504 is missing from the switch
HttpErrorNo504(status, body) ==
  CASE status = 401 -> TypedError(ErrorTypes.AUTH, <<"Invalid", "API", "key">>, 401)
    [] status = 429 -> TypedError(ErrorTypes.RATE_LIMIT, <<"Rate", "limit", "exceeded">>, 429)
    [] status = 503 -> TypedError(ErrorTypes.SERVER, <<"Service", "unavailable">>, status)
    [] OTHER ->
         IF body.json = "null"
         THEN NullDeref
         ELSE TypedError(ErrorTypes.UNKNOWN,
                         OrElse(IF body.json = "object" THEN body.error ELSE Undefined,
                                <<"API", "Error:", ToString(status)>>),
                         status)

\* the switch on response.status of a non-2xx response; errorData is
\* response.json().catch(() => ({}))
HttpError(status, body) ==
  CASE status = 401 -> TypedError(ErrorTypes.AUTH, <<"Invalid", "API", "key">>, 401)
    [] status = 429 -> TypedError(ErrorTypes.RATE_LIMIT, <<"Rate", "limit", "exceeded">>, 429)
    [] status \in {503, 504} ->
         TypedError(ErrorTypes.SERVER, <<"Service", "unavailable">>, status)
    [] OTHER ->
         IF body.json = "null"
         THEN NullDeref
         ELSE TypedError(ErrorTypes.UNKNOWN,
                         OrElse(IF body.json = "object" THEN body.error ELSE Undefined,
                                <<"API", "Error:", ToString(status)>>),
                         status)

\* const data = await response.json(); return data.message?.content || ...
ParseSuccess(body) ==
  CASE body.json = "invalid" -> Threw(JsonSyntaxError)
    [] body.json = "null" -> Threw(NullDeref)
    [] body.json = "cutFetch" -> Threw(BodyCutFetch)
    [] body.json = "cut" -> Threw(BodyCut)
    [] OTHER ->
         Returned(OrElse(body.content,
                  OrElse(body.response, OrElse(body.text, Placeholder))))

\* variant: the catch block does not look for an aborted call
DirectCatchNoAbort(error) ==
  IF error.isTypeError /\ Includes(error.message, "fetch")
  THEN TypedError(ErrorTypes.NETWORK, <<"Network", "connection", "failed">>, 0)
  ELSE error

\* the catch block of callDirectAPI
DirectCatch(error) ==
  IF error.name = "AbortError" \/ error.name = "TimeoutError"
  THEN TypedError(ErrorTypes.TIMEOUT, <<"Request", "timeout">>, 408)
  ELSE IF error.isTypeError /\ Includes(error.message, "fetch")
       THEN TypedError(ErrorTypes.NETWORK, <<"Network", "connection", "failed">>, 0)
       ELSE error

\* the body of the try block once the response headers are in
DirectBody(status, body) ==
  IF ~IsOk(status)
  THEN Threw(DirectCatch(HttpError(status, body)))
  ELSE LET r == ParseSuccess(body)
       IN IF r.ok THEN r ELSE Threw(DirectCatch(r.err))

\* if (!ENV_CONFIG.PUTER_API_KEY) throw new Error("API key is not configured")
MissingKeyError == PlainError(<<"API", "key", "is", "not", "configured">>)

\* ------------------------------------------------------------ SDK adapter
SdkText == <<"sdk", "answer">>
SdkThrown == PlainError(<<"provider", "exploded">>)

\* a rejection whose reason is null or undefined, not an object
NullRejection == Thrown("null", FALSE, "", Undefined, -1)

\* a value window.puter.ai.chat can settle with: kind "throw" is a
\* rejection with an Error, "throwNull" a rejection with null or
\* undefined; "null" is the value null; "string" a plain string; "object"
\* an object whose message.content is absent (ctype "absent"), a value
\* that is not an array (ctype "value", the value in text) or an array of
\* parts (parts lists the text member of each part, Undefined if missing)
SdkResp(kind, ctype, text, parts) ==
  [kind |-> kind, ctype |-> ctype, text |-> text, parts |-> parts]

SdkResponses ==
  { SdkResp("throw", "absent", Undefined, <<>>),
    SdkResp("throwNull", "absent", Undefined, <<>>),
    SdkResp("null", "absent", Undefined, <<>>),
    SdkResp("string", "absent", SdkText, <<>>),
    SdkResp("object", "absent", Undefined, <<>>),
    SdkResp("object", "value", SdkText, <<>>),
    SdkResp("object", "value", EmptyString, <<>>),
    SdkResp("object", "value", Number5, <<>>),
    SdkResp("object", "array", Undefined, <<SdkText>>),
    SdkResp("object", "array", Undefined, <<Number5>>),
    SdkResp("object", "array", Undefined, <<Undefined>>),
    SdkResp("object", "array", Undefined, <<>>) }

\* the try block around window.puter.ai.chat
SdkNormalize(resp) ==
  CASE resp.kind = "throw" -> Threw(SdkThrown)
    [] resp.kind = "throwNull" -> Threw(NullRejection)
    [] resp.kind = "string" -> Returned(resp.text)
    [] resp.kind = "object" /\ resp.ctype = "array" ->
         Returned(OrElse(IF Len(resp.parts) > 0 THEN resp.parts[1] ELSE Undefined,
                         EmptyString))
    [] resp.kind = "object" /\ resp.ctype = "value" /\ Truthy(resp.text) ->
         Returned(resp.text)
    [] OTHER -> Threw(PlainError(<<"Invalid", "SDK", "response", "format">>))

\* the catch (sdkError) block up to the call of callDirectAPI: the
\* argument sdkError.message of console.warn is read first, which throws
\* when sdkError is null or undefined
SdkCatch(sdkError) ==
  IF sdkError = NullRejection
  THEN Threw(NullDeref)
  ELSE Returned(Undefined)

\* ------------------------------------------------------------ callPuterAI
\* const errorType = error.type || ErrorTypes.UNKNOWN
ErrorTypeOf(error) == IF error.type # "" THEN error.type ELSE ErrorTypes.UNKNOWN

\* variant: a network failure is not retried
RetryableNoNetwork(errorType) ==
  errorType \in {ErrorTypes.TIMEOUT, ErrorTypes.SERVER, ErrorTypes.RATE_LIMIT}

\* variant: every kind is retried
RetryableAll(errorType) == errorType \in AllErrorTypes

Retryable(errorType) ==
  errorType \in {ErrorTypes.TIMEOUT, ErrorTypes.NETWORK,
                 ErrorTypes.SERVER, ErrorTypes.RATE_LIMIT}

\* the switch that picks userFriendlyMessage
UserFriendlyMessage(errorType) ==
  CASE errorType = ErrorTypes.TIMEOUT ->
         <<"Request", "timed", "out.", "Please", "try", "again.">>
    [] errorType = ErrorTypes.NETWORK ->
         <<"Network", "error.", "Please", "check", "your", "internet", "connection.">>
    [] errorType = ErrorTypes.AUTH ->
         <<"Authentication", "failed.", "Please", "check", "your", "API", "configuration.">>
    [] errorType = ErrorTypes.RATE_LIMIT ->
         <<"Rate", "limit", "exceeded.", "Please", "wait", "a", "moment", "and", "try", "again.">>
    [] errorType = ErrorTypes.SERVER ->
         <<"Service", "temporarily", "unavailable.", "Please", "try", "again", "later.">>
    [] OTHER ->
         <<"An", "unexpected", "error", "occurred.", "Please", "try", "again.">>

\* the mock response of the development environment: a fixed text (here
\* shortened to one word) that quotes the prompt
MockResponse(prompt) == <<"mock-response-for:">> \o prompt

\* ---------------------------------------------------------------- inputs
\* the characters (UTF-16 code units) of a word
Chars(w) == [j \in 1..Len(w) |-> SubSeq(w, j, j)]

\* number of characters of a word
WordLen(w) == Len(w)

RECURSIVE SumLen(_)
SumLen(s) == IF s = <<>> THEN 0 ELSE WordLen(Head(s)) + SumLen(Tail(s))

\* String.prototype.length of the string with word list s
StrLen(s) == SumLen(s) + (Len(s) - 1)

\* variant: !input, without the trim
TrimIsEmptyNoTrim(s) == s = EmptyString

\* the characters String.prototype.trim removes, the WhiteSpace and
\* LineTerminator productions of ECMAScript, as far as a TLA+ string can
\* hold them: TAB, VT (U+000B), FF, U+FEFF, the no-break space U+00A0 and
\* the space separator U+1680, LF and CR.  The blank U+0020 is the
\* separator of the word list and is in no word.  The other members of
\* the two productions (U+2000 to U+200A, U+202F, U+205F, U+3000, U+2028
\* and U+2029) cannot be written in a TLA+ string, so no word of this
\* module holds one of them.
WhiteSpace ==
  { "\t", "", "\f", "﻿", " ", " ", "\n", "\r" }

\* word w has nothing but white space characters (the empty word included)
WordIsWhiteSpace(w) ==
  LET chars == Chars(w) IN \A j \in 1..Len(chars) : chars[j] \in WhiteSpace

\* !input.trim(): the string holds nothing but white space
TrimIsEmpty(s) == \A i \in 1..Len(s) : WordIsWhiteSpace(s[i])

\* w repeated n times
RECURSIVE Repeat(_, _)
Repeat(w, n) ==
  IF n = 0 THEN ""
  ELSE IF n % 2 = 1 THEN w \o Repeat(w, n - 1)
       ELSE LET half == Repeat(w, n \div 2) IN half \o half

\* values the user can type or paste into the textarea: nothing, one blank,
\* one newline (Shift+Enter), blank-tab-blank, a no-break space (U+00A0),
\* a vertical tab followed by U+1680, a word, and a word of 4001
\* characters
InputValues ==
  { EmptyString, <<"", "">>, <<"\n">>, <<"", "\t", "">>, <<" ">>,
    <<" ">>, <<"hi">>, <<Repeat("a", 4001)>> }

\* ----------------------------------------------------------------- state
VARIABLES
  ENV_CONFIG,          \* the environment-sourced configuration record
  scriptInDom,         \* document.querySelector('script[src*="puter.com"]')
  windowPuter,         \* window.puter?.ai?.chat is defined
  isLoading, error, isPuterLoaded, scriptLoadAttempted, apiHealth,
  probe,               \* the script-load effect: pc, retryCount, loads, rerun,
                       \* the delay of the last retry timer, and pending, the
                       \* number of script loads or retry timers outstanding
  messages, input, isTyping, streamingMessage, isStreaming, apiError,
  abortControllerRef,  \* abortControllerRef.current: "null", "controller" or
                       \* "aborted"
  stream,              \* the setInterval of simulateStreaming
  call,                \* the outstanding callPuterAI / callDirectAPI frame
  mounted,             \* App is mounted: its unmount cleanup has not run
  download,            \* the array in the file exportChat downloaded last
  handleKey,           \* the memoised handleKey: the isPuterLoaded that the
                       \* sendMessage it closes over was rendered with
  ghost                \* history of the current call chain

cfgVars == <<ENV_CONFIG>>
domVars == <<scriptInDom, windowPuter>>
probeVars == <<isPuterLoaded, scriptLoadAttempted, apiHealth, probe>>
callVars == <<isLoading, error, call, ghost>>
streamVars == <<streamingMessage, isStreaming, stream>>
appVars == <<messages, input, handleKey, isTyping, apiError, abortControllerRef>>
vars == <<cfgVars, mounted, download, domVars, probeVars, callVars, streamVars, appVars>>

\* the value a state setter leaves in a state variable: React drops the
\* update once the component is unmounted
SetState(new, old) == IF mounted THEN new ELSE old

NoErrorState == [type |-> "", message |-> Undefined]
NoResult == [status |-> "none", text |-> Undefined]

IdleCall ==
  [pc |-> "idle", retries |-> 0, loaded |-> FALSE, prompt |-> Undefined,
   status |-> 0, timer |-> FALSE]

FreshGhost(turns) ==
  [turns |-> turns, startRetries |-> 0, attempts |-> 0,
   sdkCalls |-> 0, directCalls |-> 0, fetchCalls |-> 0,
   sdkFailed |-> FALSE, directInAttempt |-> FALSE, noKeyDirect |-> FALSE,
   timerFired |-> FALSE, timerCleared |-> FALSE, fetchRejected |-> FALSE,
   status |-> 0,
   firstKind |-> "", sameKind |-> TRUE,
   lastErr |-> NoError, mock |-> FALSE, result |-> NoResult,
   revealThrew |-> FALSE,
   rejected |-> FALSE, tooLong |-> FALSE]

\* parseInt(process.env.REACT_APP_PUTER_MAX_RETRIES) || 3: any integer but 0
RetryBudgets == {-1} \cup (1..MaxRetriesBound)

\* parseInt(process.env.REACT_APP_MAX_INPUT_LENGTH) || 4000: any integer
\* but 0
InputLengths == {-1, 20, 4000}

Configs ==
  [USE_DIRECT_API : BOOLEAN,
   PUTER_API_KEY : {Undefined, <<"sk-test">>},
   ENVIRONMENT : {"development", "production", "Live"},
   PUTER_MAX_RETRIES : RetryBudgets,
   MAX_INPUT_LENGTH : InputLengths]

Init ==
  /\ ENV_CONFIG \in Configs
  /\ scriptInDom \in BOOLEAN
  /\ windowPuter \in (IF scriptInDom THEN BOOLEAN ELSE {FALSE})
  /\ isLoading = FALSE
  /\ error = NoErrorState
  /\ isPuterLoaded = FALSE
  /\ scriptLoadAttempted = FALSE
  /\ apiHealth = "checking"
  /\ probe = [pc |-> "mount", retryCount |-> 0, loads |-> 0, rerun |-> FALSE,
              delay |-> 0, pending |-> 0]
  /\ messages = <<>>
  /\ input = EmptyString
  /\ handleKey = [isPuterLoaded |-> FALSE]
  /\ isTyping = FALSE
  /\ streamingMessage = EmptyString
  /\ isStreaming = FALSE
  /\ apiError = Undefined
  /\ abortControllerRef = "null"
  /\ stream = [active |-> FALSE, words |-> Undefined, index |-> 0]
  /\ call = IdleCall
  /\ mounted = TRUE
  /\ download = <<>>
  /\ ghost = FreshGhost(0)

\* ------------------------------------------------- the script-load effect
\* the body of loadPuterScript up to the end of the Promise executor
LoadPuterScript(retryCount, loads) ==
  IF scriptInDom
  THEN /\ isPuterLoaded' = TRUE
       /\ apiHealth' = "healthy"
       /\ probe' = [probe EXCEPT !.pc = "done", !.retryCount = retryCount]
       /\ UNCHANGED <<scriptLoadAttempted, scriptInDom>>
  ELSE /\ scriptInDom' = TRUE
       /\ scriptLoadAttempted' = TRUE
       /\ probe' = [probe EXCEPT !.pc = "loading", !.retryCount = retryCount,
                                 !.loads = loads + 1, !.pending = @ + 1,
                                 !.rerun = @ \/ ~scriptLoadAttempted]
       /\ UNCHANGED <<isPuterLoaded, apiHealth>>

\* first run of the effect, on mount
ProbeEffect ==
  /\ mounted
  /\ probe.pc = "mount"
  /\ IF ENV_CONFIG.USE_DIRECT_API \/ scriptLoadAttempted
     THEN /\ probe' = [probe EXCEPT !.pc = "skipped"]
          /\ UNCHANGED <<isPuterLoaded, scriptLoadAttempted, apiHealth, scriptInDom>>
     ELSE LoadPuterScript(0, probe.loads)
  /\ UNCHANGED <<cfgVars, mounted, download, windowPuter, callVars, streamVars, appVars>>

\* variant: the effect has no guard and appends a script whenever it runs
ProbeEffectRerunReloads ==
  /\ mounted
  /\ probe.rerun
  /\ scriptInDom' = TRUE
  /\ scriptLoadAttempted' = TRUE
  /\ probe' = [probe EXCEPT !.pc = "loading", !.retryCount = 0, !.rerun = FALSE,
                            !.loads = @ + 1, !.pending = @ + 1]
  /\ UNCHANGED <<isPuterLoaded, apiHealth>>
  /\ UNCHANGED <<cfgVars, mounted, download, windowPuter, callVars, streamVars, appVars>>

\* the effect runs again because scriptLoadAttempted changed
ProbeEffectRerun ==
  /\ mounted
  /\ probe.rerun
  /\ IF ENV_CONFIG.USE_DIRECT_API \/ scriptLoadAttempted
     THEN /\ probe' = [probe EXCEPT !.rerun = FALSE]
          /\ UNCHANGED <<isPuterLoaded, scriptLoadAttempted, apiHealth, scriptInDom>>
     ELSE LoadPuterScript(0, probe.loads)
  /\ UNCHANGED <<cfgVars, mounted, download, windowPuter, callVars, streamVars, appVars>>

\* script.onload
ScriptOnLoad ==
  /\ probe.pc = "loading"
  /\ isPuterLoaded' = SetState(TRUE, isPuterLoaded)
  /\ apiHealth' = SetState("healthy", apiHealth)
  /\ windowPuter' = TRUE
  /\ probe' = [probe EXCEPT !.pc = "done", !.pending = @ - 1]
  /\ UNCHANGED <<cfgVars, mounted, download, scriptInDom, scriptLoadAttempted, callVars, streamVars, appVars>>

\* variant: the load is tried again after the last failure was reported
ScriptOnErrorRetriesOn ==
  /\ probe.pc = "loading"
  /\ IF probe.retryCount < maxRetries
     THEN /\ probe' = [probe EXCEPT !.pc = "retryWait", !.retryCount = @ + 1,
                                    !.delay = PUTER_RETRY_DELAY * (probe.retryCount + 1)]
          /\ UNCHANGED apiHealth
     ELSE /\ apiHealth' = SetState("unhealthy", apiHealth)
          /\ probe' = [probe EXCEPT !.pc = "retryWait"]
  /\ UNCHANGED <<cfgVars, mounted, download, domVars, isPuterLoaded, scriptLoadAttempted,
                 callVars, streamVars, appVars>>

\* script.onerror
ScriptOnError ==
  /\ probe.pc = "loading"
  /\ IF probe.retryCount < maxRetries
     THEN \* retryCount++; setTimeout(..., PUTER_RETRY_DELAY * retryCount)
          /\ probe' = [probe EXCEPT !.pc = "retryWait", !.retryCount = @ + 1,
                                    !.delay = PUTER_RETRY_DELAY * (probe.retryCount + 1)]
          /\ UNCHANGED apiHealth
     ELSE /\ apiHealth' = SetState("unhealthy", apiHealth)
          /\ probe' = [probe EXCEPT !.pc = "done", !.pending = @ - 1]
  /\ UNCHANGED <<cfgVars, mounted, download, domVars, isPuterLoaded, scriptLoadAttempted,
                 callVars, streamVars, appVars>>

\* the setTimeout callback of script.onerror: the failed script is removed
\* and loadPuterScript runs again
ProbeRetryTimer ==
  /\ probe.pc = "retryWait"
  /\ scriptInDom' = TRUE
  /\ scriptLoadAttempted' = SetState(TRUE, scriptLoadAttempted)
  /\ probe' = [probe EXCEPT !.pc = "loading", !.loads = @ + 1]
  /\ UNCHANGED <<cfgVars, mounted, download, windowPuter, isPuterLoaded, apiHealth,
                 callVars, streamVars, appVars>>

\* a script tag that was in the page from the start finishes loading
PageScriptLoaded ==
  /\ scriptInDom /\ ~windowPuter /\ probe.loads = 0
  /\ windowPuter' = TRUE
  /\ UNCHANGED <<cfgVars, mounted, download, scriptInDom, probeVars, callVars, streamVars, appVars>>

\* ------------------------------------------------------------ callPuterAI
\* the values the synchronous code before a settle step has produced for
\* the state it shares with the settle step
Base(msgs, loading, err, typing, apiErr) ==
  [messages |-> msgs, isLoading |-> loading, error |-> err,
   isTyping |-> typing, apiError |-> apiErr]

CurrentBase == Base(messages, isLoading, error, isTyping, apiError)

\* variant: the reveal starts without setIsStreaming(true)
SimulateStreamingUnflagged(fullText) ==
  /\ UNCHANGED isStreaming
  /\ streamingMessage' = SetState(EmptyString, streamingMessage)
  /\ stream' = [active |-> TRUE, words |-> fullText, index |-> 0]

\* simulateStreaming(fullText), called by sendMessage with the response:
\* fullText.split(" ") throws, before the interval is set, when fullText
\* is not a string
SimulateStreaming(fullText) ==
  /\ isStreaming' = SetState(TRUE, isStreaming)
  /\ streamingMessage' = SetState(EmptyString, streamingMessage)
  /\ stream' = IF IsString(fullText)
               THEN [active |-> TRUE, words |-> fullText, index |-> 0]
               ELSE [stream EXCEPT !.active = FALSE]

\* the attempt failed with a retryable error and retries > 0: the catch
\* block of callPuterAI starts the retry delay
AwaitRetry(c, g, b) ==
  /\ call' = [c EXCEPT !.pc = "retryWait", !.timer = FALSE]
  /\ ghost' = g
  /\ isLoading' = b.isLoading
  /\ error' = b.error
  /\ isTyping' = b.isTyping
  /\ apiError' = b.apiError
  /\ messages' = b.messages
  /\ UNCHANGED streamVars

\* variant: the message of the caught error is thrown on
SurfaceErrorRaw(c, g, b, errorType) ==
  LET errorMessage == OrElse(g.lastErr.message, <<"Unknown", "error", "occurred">>) IN
  /\ call' = IdleCall
  /\ ghost' = [g EXCEPT !.result = [status |-> "error", text |-> errorMessage]]
  /\ error' = SetState([type |-> errorType, message |-> errorMessage], error)
  /\ isLoading' = SetState(FALSE, isLoading)
  /\ isTyping' = SetState(FALSE, isTyping)
  /\ apiError' = SetState(errorMessage, apiError)
  /\ messages' = SetState(Append(b.messages, [sender |-> "ai", text |-> errorMessage]),
                          messages)
  /\ UNCHANGED streamVars

\* callPuterAI throws new Error(userFriendlyMessage); its finally block
\* runs; the catch block of sendMessage appends the message
SurfaceError(c, g, b, errorType) ==
  LET userFriendlyMessage == UserFriendlyMessage(errorType) IN
  /\ call' = IdleCall
  /\ ghost' = [g EXCEPT !.result = [status |-> "error", text |-> userFriendlyMessage]]
  /\ error' = SetState([type |-> errorType, message |-> userFriendlyMessage], error)
  /\ isLoading' = SetState(FALSE, isLoading)
  /\ isTyping' = SetState(FALSE, isTyping)
  /\ apiError' = SetState(userFriendlyMessage, apiError)
  /\ messages' = SetState(Append(b.messages,
                                 [sender |-> "ai", text |-> userFriendlyMessage]),
                          messages)
  /\ UNCHANGED streamVars

\* callPuterAI returns text; its finally block runs; sendMessage starts
\* the reveal, and its catch block takes what simulateStreaming throws
ReturnText(c, g, b, text) ==
  /\ call' = IdleCall
  /\ ghost' = [g EXCEPT !.result = [status |-> "ok", text |-> text],
                        !.firstKind = "", !.sameKind = TRUE, !.lastErr = NoError,
                        !.revealThrew = ~IsString(text)]
  /\ error' = b.error
  /\ isLoading' = SetState(FALSE, isLoading)
  /\ isTyping' = SetState(FALSE, isTyping)
  /\ SimulateStreaming(text)
  /\ IF IsString(text)
     THEN /\ apiError' = b.apiError
          /\ messages' = b.messages
     ELSE /\ apiError' = SetState(SplitTypeError.message, apiError)
          /\ messages' = SetState(Append(b.messages,
                                         [sender |-> "ai",
                                          text |-> SplitTypeError.message]),
                                  messages)

\* the outcome o of the try block of callPuterAI reaches the return or the
\* catch block
Settle(c, g, b, o) ==
  IF o.ok
  THEN ReturnText(c, g, b, o.text)
  ELSE LET errorType == ErrorTypeOf(o.err)
           g1 == [g EXCEPT !.lastErr = o.err,
                           !.firstKind = IF g.attempts = 1 THEN errorType ELSE @,
                           !.sameKind = IF g.attempts = 1 THEN TRUE
                                        ELSE @ /\ errorType = g.firstKind]
       IN IF c.retries > 0 /\ Retryable(errorType)
          THEN AwaitRetry(c, g1, b)
          ELSE SurfaceError(c, g1, b, errorType)

\* callDirectAPI up to its first await: the timer is armed, the credential
\* is checked, fetch is issued
CallDirectAPI(c, g, b) ==
  LET g1 == [g EXCEPT !.directCalls = @ + 1, !.directInAttempt = TRUE] IN
  IF ~Truthy(ENV_CONFIG.PUTER_API_KEY)
  THEN Settle(c, [g1 EXCEPT !.noKeyDirect = TRUE], b,
              Threw(DirectCatch(MissingKeyError)))
  ELSE /\ call' = [c EXCEPT !.pc = "fetch", !.timer = TRUE]
       /\ ghost' = [g1 EXCEPT !.fetchCalls = @ + 1]
       /\ isLoading' = b.isLoading
       /\ error' = b.error
       /\ isTyping' = b.isTyping
       /\ apiError' = b.apiError
       /\ messages' = b.messages
       /\ UNCHANGED streamVars

\* variant: the SDK branch does not look at isPuterLoaded
UseSdkIgnoringLoaded(loaded) ==
  ~ENV_CONFIG.USE_DIRECT_API /\ windowPuter

\* whether the try block of callPuterAI takes the SDK branch
UseSdk(loaded) ==
  ~ENV_CONFIG.USE_DIRECT_API /\ windowPuter /\ loaded

\* variant: the mock branch is closed in production only
MockAllowedOutsideProduction == ENV_CONFIG.ENVIRONMENT # "production"

\* if (ENV_CONFIG.ENVIRONMENT === "development")
MockAllowed == ENV_CONFIG.ENVIRONMENT = "development"

\* one invocation of callPuterAI up to its first await or synchronous throw
CallPuterAI(prompt, retries, loaded, nested, g0, b0) ==
  LET c == [IdleCall EXCEPT !.retries = retries, !.loaded = loaded,
                            !.prompt = prompt]
      g == [g0 EXCEPT !.attempts = @ + 1, !.sdkFailed = FALSE,
                      !.directInAttempt = FALSE, !.noKeyDirect = FALSE,
                      !.timerFired = FALSE, !.timerCleared = FALSE,
                      !.fetchRejected = FALSE, !.status = 0]
      \* setIsLoading(true); a nested call is followed at once by the
      \* setIsLoading(false) of the finally block of its caller
      b == [b0 EXCEPT !.isLoading = SetState(~nested, @),
                      !.error = SetState(NoErrorState, @)]
  IN IF UseSdk(loaded)
     THEN /\ call' = [c EXCEPT !.pc = "sdk"]
          /\ ghost' = [g EXCEPT !.sdkCalls = @ + 1]
          /\ isLoading' = b.isLoading
          /\ error' = b.error
          /\ isTyping' = b.isTyping
          /\ apiError' = b.apiError
          /\ messages' = b.messages
          /\ UNCHANGED streamVars
     ELSE IF Truthy(ENV_CONFIG.PUTER_API_KEY)
          THEN CallDirectAPI(c, g, b)
          ELSE IF MockAllowed
               THEN /\ call' = [c EXCEPT !.pc = "mock"]
                    /\ ghost' = [g EXCEPT !.mock = TRUE]
                    /\ isLoading' = b.isLoading
                    /\ error' = b.error
                    /\ isTyping' = b.isTyping
                    /\ apiError' = b.apiError
                    /\ messages' = b.messages
                    /\ UNCHANGED streamVars
               ELSE Settle(c, g, b,
                      Threw(TypedError(ErrorTypes.AUTH,
                            <<"API", "key", "is", "not", "configured">>, -1)))

\* history: resp is a string, or an object whose content is a non-empty
\* string or a list of parts that starts with a non-empty text
Interpretable(resp) ==
  \/ resp.kind = "string"
  \/ /\ resp.kind = "object" /\ resp.ctype = "value"
     /\ IsString(resp.text) /\ Truthy(resp.text)
  \/ /\ resp.kind = "object" /\ resp.ctype = "array"
     /\ Len(resp.parts) > 0
     /\ IsString(resp.parts[1]) /\ Truthy(resp.parts[1])

\* window.puter.ai.chat settles with resp
SdkSettles(resp) ==
  /\ call.pc = "sdk"
  /\ LET r == SdkNormalize(resp)
         g == [ghost EXCEPT !.sdkFailed = ~Interpretable(resp)]
     IN IF r.ok
        THEN Settle(call, g, CurrentBase, r)
        ELSE IF SdkCatch(r.err).ok
             THEN CallDirectAPI(call, g, CurrentBase)
             ELSE Settle(call, g, CurrentBase, SdkCatch(r.err))
  /\ UNCHANGED <<cfgVars, mounted, download, domVars, probeVars, input, handleKey,
                 abortControllerRef>>

\* the setTimeout(() => controller.abort(), timeout) callback fires while
\* the timer is armed
DirectTimeout ==
  /\ call.timer
  /\ call.pc \in {"fetch", "body"}
  /\ Settle(call, [ghost EXCEPT !.timerFired = TRUE], CurrentBase,
            Threw(DirectCatch(AbortError)))
  /\ UNCHANGED <<cfgVars, mounted, download, domVars, probeVars, input, handleKey,
                 abortControllerRef>>

\* fetch rejects: the network call failed
FetchRejects(err) ==
  /\ call.pc = "fetch"
  /\ Settle(call, [ghost EXCEPT !.fetchRejected = TRUE], CurrentBase,
            Threw(DirectCatch(err)))
  /\ UNCHANGED <<cfgVars, mounted, download, domVars, probeVars, input, handleKey,
                 abortControllerRef>>

\* clearTimeout(timeoutId) after the await of fetch
ClearTimeoutAfterFetch(timer) == FALSE

\* fetch resolves with the response headers; the body is read next
FetchResolves(status) ==
  /\ call.pc = "fetch"
  /\ call' = [call EXCEPT !.pc = "body", !.status = status,
                          !.timer = ClearTimeoutAfterFetch(call.timer)]
  /\ ghost' = [ghost EXCEPT !.timerCleared = TRUE, !.status = status]
  /\ UNCHANGED <<cfgVars, mounted, download, domVars, probeVars, isLoading, error, streamVars, appVars>>

\* response.json() settles with body
BodyRead(body) ==
  /\ call.pc = "body"
  /\ Settle(call, ghost, CurrentBase, DirectBody(call.status, body))
  /\ UNCHANGED <<cfgVars, mounted, download, domVars, probeVars, input, handleKey,
                 abortControllerRef>>

\* the retry delay of the catch block ends: callPuterAI calls itself with
\* retries - 1 and returns that promise, so its own finally block runs
\* right after the nested call has started
RetryTimer ==
  /\ call.pc = "retryWait"
  /\ CallPuterAI(call.prompt, call.retries - 1, call.loaded, TRUE, ghost,
                 CurrentBase)
  /\ UNCHANGED <<cfgVars, mounted, download, domVars, probeVars, input, handleKey,
                 abortControllerRef>>

\* the 1000 ms delay of the mock branch ends
MockTimer ==
  /\ call.pc = "mock"
  /\ Settle(call, ghost, CurrentBase, Returned(MockResponse(call.prompt)))
  /\ UNCHANGED <<cfgVars, mounted, download, domVars, probeVars, input, handleKey,
                 abortControllerRef>>

\* -------------------------------------------------------------------- App
\* a turn is a prompt with its call chain and its reveal; the turn is open
\* while the chain or the reveal is outstanding
TurnOpen == call.pc # "idle" \/ stream.active

\* the number of turns that are over
TurnsDone == IF TurnOpen THEN ghost.turns - 1 ELSE ghost.turns

\* useCallback(..., [input]) of handleKey in the render that follows a
\* write of newInput to input: when the value changed, handleKey is built
\* anew around the sendMessage of that render, whose callPuterAI closes over
\* the isPuterLoaded of that render; otherwise the memoised one is kept
Memoised(newInput) ==
  IF newInput # input THEN [isPuterLoaded |-> isPuterLoaded] ELSE handleKey

\* prompts of the suggestion cards
SuggestionPrompts ==
  { <<"Optimize", "this", "code", "for", "better", "performance">> }

\* onClick of a suggestion card of the welcome screen, which is rendered
\* while messages.length === 0 && !isStreaming; disabled={isAPILoading}
SuggestionClick(prompt) ==
  /\ mounted
  /\ TurnsDone < MaxTurns
  /\ messages = <<>> /\ ~isStreaming
  /\ ~isLoading
  /\ prompt # input
  /\ input' = prompt
  /\ handleKey' = Memoised(input')
  /\ UNCHANGED <<cfgVars, mounted, download, domVars, probeVars, callVars, streamVars,
                 messages, isTyping, apiError, abortControllerRef>>

\* onClick of the clear-input button: disabled={isAPILoading}, and out of
\* reach of the pointer while input is empty
ClearInputClick ==
  /\ mounted
  /\ ~isLoading
  /\ input # EmptyString
  /\ input' = EmptyString
  /\ handleKey' = Memoised(input')
  /\ UNCHANGED <<cfgVars, mounted, download, domVars, probeVars, callVars, streamVars,
                 messages, isTyping, apiError, abortControllerRef>>

\* handleInputChange: the textarea is disabled while a call or a reveal
\* is outstanding
HandleInputChange(value) ==
  /\ mounted
  /\ TurnsDone < MaxTurns
  /\ ~(isLoading \/ isTyping \/ isStreaming)
  /\ value # input
  /\ input' = IF StrLen(value) <= ENV_CONFIG.MAX_INPUT_LENGTH THEN value ELSE input
  /\ handleKey' = Memoised(input')
  /\ UNCHANGED <<cfgVars, mounted, download, domVars, probeVars, callVars, streamVars,
                 messages, isTyping, apiError, abortControllerRef>>

\* the body of sendMessage, of a render in which isPuterLoaded was loaded
SendMessage(loaded) ==
  /\ mounted
  /\ TurnsDone < MaxTurns
  /\ IF TrimIsEmpty(input)
     THEN \* if (!input.trim()) return
          /\ ghost' = [ghost EXCEPT !.rejected = TRUE]
          /\ UNCHANGED <<isLoading, error, call, streamVars, appVars>>
     ELSE IF StrLen(input) > ENV_CONFIG.MAX_INPUT_LENGTH
     THEN \* alert("Input is too long. ..."); return
          /\ ghost' = [ghost EXCEPT !.tooLong = TRUE]
          /\ UNCHANGED <<isLoading, error, call, streamVars, appVars>>
     ELSE /\ input' = EmptyString
          /\ handleKey' = Memoised(input')
          \* the controller put in the ref is handed to no fetch call
          /\ abortControllerRef' = "controller"
          /\ CallPuterAI(input, ENV_CONFIG.PUTER_MAX_RETRIES, loaded, FALSE,
                         [FreshGhost(ghost.turns + 1) EXCEPT
                            !.startRetries = ENV_CONFIG.PUTER_MAX_RETRIES],
                         Base(Append(messages, [sender |-> "user", text |-> input]),
                              isLoading, error, TRUE, Undefined))
  /\ UNCHANGED <<cfgVars, mounted, download, domVars, probeVars>>

\* the send button: disabled={!input.trim() || isAPILoading || isTyping ||
\* isStreaming || apiHealth === "unhealthy"}
SendButtonClick ==
  /\ ~TrimIsEmpty(input)
  /\ ~(isLoading \/ isTyping \/ isStreaming)
  /\ apiHealth # "unhealthy"
  /\ SendMessage(isPuterLoaded)

\* handleKey on Enter without shift: it calls the sendMessage of the
\* render in which it was memoised; the textarea is
\* disabled={isAPILoading || isTyping || isStreaming}
HandleKey ==
  /\ ~(isLoading \/ isTyping \/ isStreaming)
  /\ SendMessage(handleKey.isPuterLoaded)

\* prev + (prev ? " " : "") + word
AppendWord(prev, word) == IF Truthy(prev) THEN Append(prev, word) ELSE <<word>>

\* words[i] of the updater, i counted from 0; reading past the end gives
\* undefined, which the string concatenation prints
WordAt(words, i) == IF i < Len(words) THEN words[i + 1] ELSE "undefined"

\* one run of the setInterval callback of simulateStreaming.  The updater
\* passed to setStreamingMessage reads words[index] when React runs it:
\* at the call (lag 0) or at the next render, after index++ (lag 1).
StreamTick ==
  /\ stream.active
  /\ IF stream.index < Len(stream.words)
     THEN /\ \E lag \in {0, 1} :
               streamingMessage' =
                 SetState(AppendWord(streamingMessage,
                                     WordAt(stream.words, stream.index + lag)),
                          streamingMessage)
          /\ stream' = [stream EXCEPT !.index = @ + 1]
          /\ UNCHANGED <<isStreaming, messages>>
     ELSE /\ stream' = [stream EXCEPT !.active = FALSE]
          /\ isStreaming' = SetState(FALSE, isStreaming)
          /\ messages' = SetState(Append(messages, [sender |-> "ai", text |-> stream.words]),
                                  messages)
          /\ streamingMessage' = SetState(EmptyString, streamingMessage)
  /\ UNCHANGED <<cfgVars, mounted, download, domVars, probeVars, callVars, input, handleKey, isTyping, apiError,
                 abortControllerRef>>

\* the cleanup of the unmount effect of App: the interval of the reveal is
\* cleared and the controller in abortControllerRef is aborted; timers and
\* promises of an outstanding call are left alone
Unmount ==
  /\ mounted
  /\ mounted' = FALSE
  /\ stream' = [stream EXCEPT !.active = FALSE]
  /\ abortControllerRef' =
       IF abortControllerRef = "null" THEN "null" ELSE "aborted"
  /\ UNCHANGED <<cfgVars, download, domVars, probeVars, callVars, streamingMessage,
                 isStreaming, messages, input, handleKey, isTyping,
                 apiError>>

\* variant: every record of the export has the role "user"
ChatHistoryOneRole(msgs) ==
  [i \in 1..Len(msgs) |->
     [role |-> "user", content |-> msgs[i].text, timestamp |-> "toISOString"]]

\* messages.map((msg) => ({role: msg.sender, content: msg.text, timestamp})):
\* the array that JSON.stringify writes to the file; the timestamp is the
\* clock reading, one token here
ChatHistory(msgs) ==
  [i \in 1..Len(msgs) |->
     [role |-> msgs[i].sender, content |-> msgs[i].text, timestamp |-> "toISOString"]]

\* exportChat, behind the Export button shown when messages.length > 0
ExportChat ==
  /\ mounted
  /\ messages # <<>>
  /\ download' = ChatHistory(messages)
  /\ UNCHANGED <<cfgVars, mounted, domVars, probeVars, callVars, streamVars, appVars>>

\* clearChat with window.confirm answered yes, behind the Clear button
\* shown when messages.length > 0
ClearChat ==
  /\ mounted
  /\ messages # <<>>
  /\ messages' = <<>>
  /\ apiError' = Undefined
  /\ UNCHANGED <<cfgVars, mounted, download, domVars, probeVars, callVars, streamVars,
                 input, handleKey, isTyping, abortControllerRef>>

\* ------------------------------------------------------------ specification
Next ==
  \/ ProbeEffect
  \/ ProbeEffectRerun
  \/ ScriptOnLoad
  \/ ScriptOnError
  \/ ProbeRetryTimer
  \/ PageScriptLoaded
  \/ \E value \in InputValues : HandleInputChange(value)
  \/ \E prompt \in SuggestionPrompts : SuggestionClick(prompt)
  \/ ClearInputClick
  \/ SendButtonClick
  \/ HandleKey
  \/ \E resp \in SdkResponses : SdkSettles(resp)
  \/ DirectTimeout
  \/ \E err \in FetchRejections : FetchRejects(err)
  \/ \E status \in Statuses : FetchResolves(status)
  \/ \E body \in Bodies : BodyRead(body)
  \/ RetryTimer
  \/ MockTimer
  \/ StreamTick
  \/ ExportChat
  \/ ClearChat
  \/ Unmount

Spec == Init /\ [][Next]_vars

\* a step of an outstanding call chain: a promise settles or a timer fires
ChainStep ==
  \/ \E resp \in SdkResponses : SdkSettles(resp)
  \/ DirectTimeout
  \/ \E err \in FetchRejections : FetchRejects(err)
  \/ \E status \in Statuses : FetchResolves(status)
  \/ \E body \in Bodies : BodyRead(body)
  \/ RetryTimer
  \/ MockTimer

\* a step of the script-load effect: the effect runs, the script element
\* fires onload or onerror, the retry timer fires
ProbeStep ==
  \/ ProbeEffect
  \/ ProbeEffectRerun
  \/ ScriptOnLoad
  \/ ScriptOnError
  \/ ProbeRetryTimer

\* every promise settles and every timer fires in the end; the user is
\* under no obligation
Fairness ==
  /\ WF_vars(ChainStep)
  /\ WF_vars(ProbeStep)
  /\ WF_vars(StreamTick)

\* the configurations with one retry: every branch of the program is
\* live in them
InitSingleRetry == Init /\ ENV_CONFIG.PUTER_MAX_RETRIES = 1

SpecSingleRetry == InitSingleRetry /\ [][Next]_vars

SpecFair == SpecSingleRetry /\ Fairness

\* the development build without forced direct transport and with the
\* default input length, under every retry budget: the SDK, direct and
\* mock branches of callPuterAI are all live in it
InitDev ==
  /\ Init
  /\ ENV_CONFIG.ENVIRONMENT = "development"
  /\ ~ENV_CONFIG.USE_DIRECT_API
  /\ ENV_CONFIG.MAX_INPUT_LENGTH = 4000

SpecDev == InitDev /\ [][Next]_vars

\* ------------------------------------------------------------- properties
\* the kind of the error the last failed attempt handed to the catch block
\* of callPuterAI
LastKind == ErrorTypeOf(ghost.lastErr)

AttemptFailed == ghost.lastErr # NoError

ChainFailed == ghost.result.status = "error"

\* the kinds the retry policy names
RetryableKinds ==
  {"TIMEOUT_ERROR", "NETWORK_ERROR", "SERVER_ERROR", "RATE_LIMIT_ERROR"}

\* C1 as stated: when every attempt of a call chain started with
\* retries = n ended in one and the same retryable kind, the chain made
\* exactly n + 1 attempts, n + 1 callDirectAPI calls and n + 1 network
\* calls, and failed with the fixed message of that kind
C1_ExactlyNPlusOne ==
  (ChainFailed /\ ghost.sameKind /\ ghost.firstKind \in RetryableKinds) =>
    /\ ghost.attempts = ghost.startRetries + 1
    /\ ghost.directCalls = ghost.startRetries + 1
    /\ ghost.fetchCalls = ghost.startRetries + 1
    /\ ghost.result.text = UserFriendlyMessage(ghost.firstKind)

\* the number of retries a budget of n allows
RetriesOf(n) == IF n > 0 THEN n ELSE 0

\* C1, amended: when every attempt of a call chain started with
\* retries = n ended in one and the same retryable kind, the chain made
\* exactly max(n, 0) + 1 attempts, as many callDirectAPI calls and as many
\* network calls, and failed with the fixed message of that kind
C1_RetriesExhausted ==
  (ChainFailed /\ ghost.sameKind /\ ghost.firstKind \in RetryableKinds) =>
    /\ ghost.attempts = RetriesOf(ghost.startRetries) + 1
    /\ ghost.directCalls = RetriesOf(ghost.startRetries) + 1
    /\ ghost.fetchCalls = RetriesOf(ghost.startRetries) + 1
    /\ ghost.result.text = UserFriendlyMessage(ghost.firstKind)

C1_Witness ==
  /\ ChainFailed /\ ghost.sameKind
  /\ ghost.firstKind = ErrorTypes.NETWORK
  /\ ghost.startRetries = 3
  /\ ghost.fetchCalls = 4
  /\ ghost.result.text = UserFriendlyMessage(ErrorTypes.NETWORK)

\* C2: an attempt that ends in AUTHENTICATION_ERROR or UNKNOWN_ERROR ends
\* the chain at once, with the failure surfaced; when it is the first
\* attempt the chain has made one attempt and at most one transport call,
\* whatever the retry budget
C2_NoRetryOfNonRetryable ==
  (AttemptFailed /\ LastKind \notin RetryableKinds) =>
    /\ call.pc = "idle"
    /\ ChainFailed
    /\ ghost.firstKind = LastKind =>
         /\ ghost.attempts = 1
         /\ ghost.directCalls <= 1
         /\ ghost.fetchCalls <= 1
         /\ ghost.sdkCalls <= 1

C2_Witness ==
  /\ ChainFailed
  /\ ghost.lastErr.type = ErrorTypes.AUTH
  /\ ghost.status = 401
  /\ ghost.startRetries = 3
  /\ ghost.attempts = 1
  /\ ghost.fetchCalls = 1

\* the kind the status code of a non-2xx response stands for
KindOfStatus(status) ==
  CASE status = 401 -> ErrorTypes.AUTH
    [] status = 429 -> ErrorTypes.RATE_LIMIT
    [] status = 503 -> ErrorTypes.SERVER
    [] status = 504 -> ErrorTypes.SERVER
    [] OTHER -> ErrorTypes.UNKNOWN

\* the body of the response of this attempt has been read
BodyWasRead == ghost.status # 0 /\ call.pc # "body"

\* C3: once the body of a non-2xx response has been read, the error that
\* callDirectAPI threw has the kind of the status code, whatever the body
C3_StatusDecidesKind ==
  (BodyWasRead /\ ~IsOk(ghost.status)) =>
    /\ AttemptFailed
    /\ LastKind = KindOfStatus(ghost.status)

C3_Witness ==
  /\ BodyWasRead
  /\ ghost.status = 504
  /\ ghost.lastErr.type = ErrorTypes.SERVER
  /\ call.pc = "retryWait"

\* C4: an attempt whose timer fired was still waiting for the response
\* and ends in TIMEOUT_ERROR; once the response has arrived the timer is
\* not armed and does not fire in that attempt
C4_TimeoutIsTimeoutError ==
  /\ ghost.timerFired =>
       /\ AttemptFailed
       /\ LastKind = ErrorTypes.TIMEOUT
       /\ ~ghost.timerCleared
       /\ call.pc \notin {"fetch", "body"}
  /\ call.pc = "body" => ~call.timer
  /\ ghost.timerCleared => ~call.timer

C4_Witness ==
  /\ ghost.timerFired
  /\ ghost.lastErr.type = ErrorTypes.TIMEOUT
  /\ ghost.lastErr.status = 408
  /\ call.pc = "retryWait"

\* C5: an attempt in which callDirectAPI ran without a credential issued
\* no network call and ended in AUTHENTICATION_ERROR, so that a chain that
\* fails there shows the authentication message
C5_MissingKeyIsAuthError ==
  ghost.noKeyDirect =>
    /\ ghost.fetchCalls = 0
    /\ LastKind = ErrorTypes.AUTH
    /\ ChainFailed => ghost.result.text = UserFriendlyMessage(ErrorTypes.AUTH)

\* C6: an attempt whose fetch promise rejected ends in NETWORK_ERROR and
\* is retried while retries are left
C6_FetchRejectionIsNetworkError ==
  ghost.fetchRejected =>
    /\ LastKind = ErrorTypes.NETWORK
    /\ ~ChainFailed => call.pc = "retryWait"

SdkMessages == { SdkThrown.message, <<"Invalid", "SDK", "response", "format">> }

\* the texts and the errors callDirectAPI can produce
DirectTexts == { ParseSuccess(b).text : b \in {x \in Bodies : x.json = "object"} }

\* C7: in an attempt whose SDK call threw or gave a response without
\* interpretable text, callDirectAPI was invoked, and what the attempt
\* hands on is what callDirectAPI produced: its text, or its error, never
\* the SDK's
C7_SdkFailureFallsBack ==
  ghost.sdkFailed =>
    /\ ghost.directInAttempt
    /\ ghost.directCalls >= 1
    /\ AttemptFailed => ghost.lastErr.message \notin SdkMessages
    /\ ghost.result.status = "ok" => ghost.result.text \in DirectTexts
    /\ ChainFailed => ghost.result.text = UserFriendlyMessage(LastKind)

\* C8: while a call of window.puter.ai.chat is outstanding, direct mode is
\* not forced, the provider is present and apiHealth is healthy
C8_SdkOnlyWhenHealthy ==
  call.pc = "sdk" =>
    /\ ~ENV_CONFIG.USE_DIRECT_API
    /\ windowPuter
    /\ apiHealth = "healthy"

C8_Witness ==
  /\ call.pc = "sdk"
  /\ apiHealth = "healthy"
  /\ ghost.sdkCalls = 1
  /\ probe.retryCount = 2

\* C9: a chain whose first attempt took neither the SDK branch nor a
\* credential made no callDirectAPI call and no network call; in the
\* development environment it takes the mock branch, in any other it has
\* failed after one attempt with the authentication message; a mock text
\* is returned in the development environment only
C9_MockOnlyInDevelopment ==
  /\ (ghost.attempts >= 1 /\ ghost.sdkCalls = 0
        /\ ~Truthy(ENV_CONFIG.PUTER_API_KEY)) =>
       /\ ghost.directCalls = 0 /\ ghost.fetchCalls = 0
       /\ ghost.attempts = 1
       /\ IF ENV_CONFIG.ENVIRONMENT = "development"
          THEN ghost.mock /\ ~ChainFailed
          ELSE /\ ~ghost.mock
               /\ ChainFailed
               /\ ghost.lastErr.type = ErrorTypes.AUTH
               /\ ghost.result.text = UserFriendlyMessage(ErrorTypes.AUTH)
  /\ ghost.mock => ENV_CONFIG.ENVIRONMENT = "development"
  /\ \A i \in 1..Len(messages) :
       (messages[i].sender = "ai" /\ Head(messages[i].text) = "mock-response-for:")
         => ENV_CONFIG.ENVIRONMENT = "development"

C9_Witness ==
  /\ ENV_CONFIG.ENVIRONMENT = "Live"
  /\ ghost.attempts = 1
  /\ ghost.sdkCalls = 0 /\ ghost.fetchCalls = 0
  /\ ChainFailed
  /\ ghost.lastErr.type = ErrorTypes.AUTH
  /\ ghost.startRetries = ENV_CONFIG.PUTER_MAX_RETRIES

FixedMessages == { UserFriendlyMessage(t) : t \in AllErrorTypes }

\* the step in which a call chain fails, taken by the mounted App
FailureStep == ~ChainFailed /\ ChainFailed' /\ mounted

\* the step in which sendMessage accepts the prompt in input
AcceptStep == ghost'.turns # ghost.turns

\* the transcript after the setMessages of sendMessage at an accept step,
\* the transcript as it is at any other step
WithPrompt ==
  IF AcceptStep
  THEN Append(messages, [sender |-> "user", text |-> input])
  ELSE messages

\* C10: a failed chain threw the fixed message of the kind of its last
\* error; the six kinds have six different messages; the message of the
\* caught error is not what was thrown; in the step of the failure
\* sendMessage appends that fixed message as an assistant message and
\* writes it to apiError, and callPuterAI writes it to error.message
C10_OnlyFixedMessagesSurface ==
  /\ [](/\ Cardinality(FixedMessages) = 6
        /\ ChainFailed =>
             /\ ghost.result.text = UserFriendlyMessage(LastKind)
             /\ ghost.result.text \in FixedMessages
             /\ ghost.result.text # ghost.lastErr.message)
  /\ [][FailureStep =>
         /\ messages' = Append(WithPrompt, [sender |-> "ai",
                                            text |-> ghost'.result.text])
         /\ apiError' = ghost'.result.text
         /\ error' = [type |-> ErrorTypeOf(ghost'.lastErr),
                      message |-> ghost'.result.text]]_vars

C10_Witness ==
  /\ ChainFailed
  /\ mounted
  /\ ghost.status = 500
  /\ ghost.lastErr.message = ServerMessage
  /\ ghost.result.text = UserFriendlyMessage(ErrorTypes.UNKNOWN)
  /\ messages # <<>>
  /\ messages[Len(messages)].text = UserFriendlyMessage(ErrorTypes.UNKNOWN)
  /\ apiError = UserFriendlyMessage(ErrorTypes.UNKNOWN)

\* the chain of callPuterAI calls that sendMessage started has not yet
\* returned or thrown
ChainOutstanding == call.pc # "idle"

\* C11: isLoading is true in every state in which a call chain is
\* outstanding, its retry waits and retried attempts included
C11_LoadingUntilOutcome == ChainOutstanding => isLoading

\* the step in which a call chain reaches its final outcome, taken by the
\* mounted App
OutcomeStep ==
  /\ ghost.result.status = "none" /\ ghost'.result.status # "none"
  /\ mounted

\* C12: the step in which a call chain succeeds leaves apiHealth healthy,
\* the step in which it fails leaves apiHealth other than healthy: the
\* outcome of callPuterAI is written to apiHealth
C12_OutcomeWritesHealth ==
  [][OutcomeStep =>
       IF ghost'.result.status = "ok"
       THEN apiHealth' = "healthy"
       ELSE apiHealth' # "healthy"]_vars

\* C13: the k-th retry of the script load is scheduled with delay
\* PUTER_RETRY_DELAY * k, and the effect has set apiHealth to unhealthy
\* only after exactly 1 + PUTER_MAX_RETRIES load attempts, all failed, and
\* never makes more load attempts than that
C13_ProbeExhaustsConfiguredRetries ==
  /\ probe.pc = "retryWait" => probe.delay = PUTER_RETRY_DELAY * probe.loads
  /\ probe.loads <= 1 + ENV_CONFIG.PUTER_MAX_RETRIES
  /\ apiHealth = "unhealthy" =>
       /\ probe.pc = "done"
       /\ probe.loads = 1 + ENV_CONFIG.PUTER_MAX_RETRIES

\* C14: at most one script load (or retry timer of one) of the effect is
\* outstanding in every state; it is outstanding exactly while the effect
\* is loading or waiting for a retry, so the re-run of the effect that
\* setScriptLoadAttempted(true) causes has started no second one
C14_SingleLoadInFlight ==
  /\ probe.pending <= 1
  /\ probe.pending = 1 <=> probe.pc \in {"loading", "retryWait"}
  /\ probe.loads <= probe.retryCount + 1

\* the effect has run again while its first load was still outstanding
C14_Witness ==
  /\ scriptLoadAttempted /\ ~probe.rerun
  /\ probe.pc = "loading"
  /\ probe.loads = 1
  /\ probe.pending = 1

\* C15: apiHealth is healthy only in states where window.puter.ai.chat is
\* defined; in particular the effect has reported healthy without a load
\* only when the provider was there
C15_HealthyOnlyWithProvider ==
  /\ apiHealth = "healthy" => windowPuter
  /\ isPuterLoaded => windowPuter

\* the first k words of a text, joined by single spaces
FirstWords(words, k) == IF k = 0 THEN EmptyString ELSE SubSeq(words, 1, k)

\* the reveal of the response of the current chain has been committed
RevealCommitted == ghost.result.status = "ok" /\ ~stream.active

\* C16: while the interval of simulateStreaming runs in the mounted App,
\* streamingMessage after tick k is the first k words of the full text;
\* the tick that ends the reveal appends the one assistant message with
\* the full text, and from then on streamingMessage is empty and
\* isStreaming is false
C16_RevealShowsPrefixes ==
  /\ []((stream.active /\ mounted) =>
          /\ isStreaming
          /\ stream.index <= Len(stream.words)
          /\ streamingMessage = FirstWords(stream.words, stream.index))
  /\ []((RevealCommitted /\ mounted) =>
          /\ streamingMessage = EmptyString
          /\ ~isStreaming)
  /\ [][(stream.active /\ ~stream'.active /\ mounted') =>
         messages' = Append(messages, [sender |-> "ai",
                                       text |-> stream.words])]_vars

\* C17: in the reveal of an empty full text no tick has taken the append
\* branch: the index of simulateStreaming is still 0 at every moment of
\* the reveal and after its commit
C17_EmptyTextCommitsAtOnce ==
  (ghost.result.status = "ok" /\ ghost.result.text = EmptyString) =>
    /\ stream.words = EmptyString
    /\ stream.index = 0

\* C18: once the unmount cleanup has run, no step advances or commits a
\* reveal, and neither streamingMessage nor messages changes, whatever was
\* outstanding when the cleanup ran
C18_NothingAfterTeardown ==
  [][~mounted =>
       /\ stream.active => stream' = stream
       /\ streamingMessage' = streamingMessage
       /\ messages' = messages]_vars

\* the string holds nothing but blanks, tabs and line terminators
WhitespaceOnly(s) ==
  \A i \in 1..Len(s) : \A j \in 1..Len(Chars(s[i])) :
    Chars(s[i])[j] \in WhiteSpace

\* a prompt sendMessage may hand to callPuterAI
ValidPrompt(p) == ~WhitespaceOnly(p) /\ StrLen(p) <= ENV_CONFIG.MAX_INPUT_LENGTH

UserMessages == { i \in 1..Len(messages) : messages[i].sender = "user" }

\* the step in which sendMessage returns early, at its first or at its
\* second test
RejectStep ==
  \/ ~ghost.rejected /\ ghost'.rejected
  \/ ~ghost.tooLong /\ ghost'.tooLong

\* C19: the prompt of an outstanding call chain and the text of every user
\* message are neither white space only nor longer than MAX_INPUT_LENGTH;
\* a step that starts a chain appends its prompt as a user message; the
\* input on which sendMessage returns early is white space only or too
\* long, and that step adds no message, starts no chain and leaves
\* isTyping false
C19_OnlyValidPromptsReachPipeline ==
  /\ [](/\ ChainOutstanding => ValidPrompt(call.prompt)
        /\ \A i \in UserMessages : ValidPrompt(messages[i].text)
        /\ (isTyping /\ mounted) => ChainOutstanding
        /\ (ghost.rejected \/ ghost.tooLong) => (~ChainOutstanding /\ ~isTyping))
  /\ [][AcceptStep =>
         /\ ValidPrompt(input)
         /\ SubSeq(messages', 1, Len(messages) + 1) = WithPrompt
         /\ (call'.pc = "idle" \/ call'.prompt = input)]_vars
  /\ [][RejectStep =>
         /\ ~ValidPrompt(input)
         /\ ghost'.tooLong # ghost.tooLong =>
              StrLen(input) > ENV_CONFIG.MAX_INPUT_LENGTH
         /\ messages' = messages
         /\ call' = call
         /\ ~isTyping']_vars

\* with MAX_INPUT_LENGTH = 20, sendMessage has returned early on the
\* prompt of a suggestion card, which is too long, and then on an input of
\* one no-break space
C19_Witness ==
  /\ ghost.tooLong
  /\ ghost.rejected
  /\ ENV_CONFIG.MAX_INPUT_LENGTH = 20
  /\ input = <<" ">> /\ StrLen(input) = 1
  /\ messages = <<>>
  /\ ~isTyping
  /\ call.pc = "idle"

\* C20: while a call chain or a reveal is outstanding, isTyping or
\* isStreaming is true, the flags that disable the send button and the
\* textarea; a chain and a reveal are never outstanding together; and a
\* step in which sendMessage accepts a prompt starts from a state with no
\* chain and no reveal outstanding, so that at most one chain exists
C20_OneChainAtATime ==
  [][/\ (ChainOutstanding \/ stream.active) => (isTyping \/ isStreaming)
     /\ ~(ChainOutstanding /\ stream.active)
     /\ ghost'.turns # ghost.turns =>
          /\ ~ChainOutstanding /\ ~stream.active
          /\ ~isTyping /\ ~isStreaming
          /\ ghost'.turns = ghost.turns + 1]_vars

\* a retried attempt is outstanding: isLoading is false and isTyping alone
\* keeps the two routes closed
C20_Witness ==
  /\ call.pc = "fetch"
  /\ ghost.attempts = 2
  /\ ghost.turns = 1
  /\ ~isLoading /\ isTyping /\ ~isStreaming
  /\ input = EmptyString

\* the conditions under which the textarea takes input and the Enter key
\* reaches sendMessage
EnterRouteOpen == mounted /\ ~(isLoading \/ isTyping \/ isStreaming)

\* sendMessage has caught a failure: callPuterAI threw, or
\* simulateStreaming threw on the response
FailureSurfaced == ChainFailed \/ ghost.revealThrew

\* C21: the step in which sendMessage catches a failure adds one message
\* to the transcript (after the prompt, when the chain fails as it
\* starts), and that message is an assistant message with one of the
\* fixed failure messages; as long as App is mounted after a failure,
\* isTyping, isLoading and isStreaming are false, nothing is outstanding,
\* and the textarea and its Enter key are open for a further prompt
C21_ChatUsableAfterFailure ==
  /\ []((FailureSurfaced /\ mounted) =>
          /\ ~isTyping /\ ~isLoading /\ ~isStreaming
          /\ call.pc = "idle" /\ ~stream.active
          /\ EnterRouteOpen)
  /\ [][(~FailureSurfaced /\ FailureSurfaced' /\ mounted) =>
         /\ Len(messages') = Len(WithPrompt) + 1
         /\ SubSeq(messages', 1, Len(WithPrompt)) = WithPrompt
         /\ messages'[Len(messages')].sender = "ai"
         /\ messages'[Len(messages')].text \in FixedMessages]_vars

\* C22: a step that writes a new export file writes one record per message
\* of the transcript, in the transcript's order, record i with the sender
\* of message i as role and its text as content, and leaves the transcript
\* as it was
C22_ExportMirrorsTranscript ==
  [][download' # download =>
       /\ Len(download') = Len(messages)
       /\ \A i \in 1..Len(messages) :
            /\ download'[i].role = messages[i].sender
            /\ download'[i].content = messages[i].text
       /\ messages' = messages]_vars

\* a conversation of two messages has been exported
C22_Witness ==
  /\ Len(download) = 2
  /\ download[1].role = "user" /\ download[1].content = <<"hi">>
  /\ download[2].role = "ai" /\ download[2].content = DirectText
  /\ Len(messages) = 2
  /\ messages[2] = [sender |-> "ai", text |-> DirectText]

\* C23: once the body of a 2xx response has been read, the chain has
\* returned a text, which is a text of the body or the placeholder "No
\* response generated"; no error has come out of that attempt
C23_SuccessStatusNeverFails ==
  (BodyWasRead /\ IsOk(ghost.status)) =>
    /\ ghost.result.status = "ok"
    /\ ghost.result.text \in {DirectText, Number5, Placeholder}
    /\ ~AttemptFailed

\* the text the chain returned is what the SDK branch returned
SdkAnswered ==
  /\ ghost.result.status = "ok"
  /\ ghost.sdkCalls >= 1
  /\ ~ghost.directInAttempt /\ ~ghost.mock

\* C24: a text that the SDK branch returned is a non-empty string; a
\* response without interpretable text has sent the attempt on to
\* callDirectAPI instead
C24_SdkReturnsTextOrFallsBack ==
  SdkAnswered => (IsString(ghost.result.text) /\ Truthy(ghost.result.text))

\* C25: once the controller in abortControllerRef has been aborted, an
\* outstanding call chain that uses the network sees its pending fetch
\* resolve no more, issues no further network call, and returns no
\* response text to sendMessage
C25_AbortCancelsCall ==
  [][(abortControllerRef = "aborted" /\ ChainOutstanding /\ ghost.fetchCalls >= 1) =>
       /\ ~(call.pc = "fetch" /\ call'.pc = "body")
       /\ ghost'.fetchCalls = ghost.fetchCalls
       /\ ghost'.result.status # "ok"]_vars

\* C26: a chain started with retries = n has made at most n + 1 attempts;
\* while it is outstanding its remaining retry count is n less the number
\* of retries made; it is over once an outcome exists; a chain that
\* succeeded on a retried attempt returned a text and left no error
\* behind: error and apiError are unset, and the one message appended in
\* the rest of its turn is the assistant message with the response text.
\* An outstanding chain can always take a step, and every step of it
\* brings it nearer its end.
C26_Safety ==
  /\ ghost.attempts <= ghost.startRetries + 1
  /\ ChainOutstanding =>
       /\ ghost.attempts >= 1
       /\ call.retries = ghost.startRetries - (ghost.attempts - 1)
       /\ ghost.result.status = "none"
  /\ (ghost.result.status = "ok" /\ ghost.attempts > 1) =>
       /\ IsString(ghost.result.text)
       /\ error = NoErrorState
       /\ apiError = Undefined

\* what is left of a chain: its remaining retries, then how far the
\* attempt under way still is from its end
ChainMeasure ==
  IF ~ChainOutstanding THEN 0
  ELSE 6 * call.retries +
       (CASE call.pc = "sdk" -> 5
          [] call.pc = "fetch" -> 4
          [] call.pc = "body" -> 3
          [] OTHER -> 1)

\* C26: the chain stays within n + 1 attempts, can always take a step
\* while it is outstanding, comes nearer its end with every step, and a
\* success on a retried attempt appends the response text and no error
C26_ChainTerminates ==
  /\ []C26_Safety
  /\ [](ChainOutstanding => ENABLED ChainStep)
  /\ [][(ChainOutstanding /\ call' # call) => ChainMeasure' < ChainMeasure]_vars
  /\ [][(ghost'.result.status = "ok" /\ ghost'.turns = ghost.turns
           /\ ghost.attempts > 1 /\ Len(messages') > Len(messages)) =>
         messages' = Append(messages, [sender |-> "ai",
                                       text |-> ghost'.result.text])]_vars

\* C27: a prompt enters the pipeline (a turn begins) only in a state in
\* which apiHealth is not "unhealthy", whichever route submitted it
C27_NoSubmitWhileUnhealthy ==
  [][ghost'.turns > ghost.turns => apiHealth # "unhealthy"]_vars


\* C28: in every state each assistant message of the transcript has a
\* user message immediately before it
C28_TranscriptWellFormed ==
  \A i \in 1..Len(messages) :
    messages[i].sender = "ai" =>
      /\ i > 1
      /\ messages[i - 1].sender = "user"


\* C29: from a state in which apiHealth is "unhealthy" every step leaves
\* it "unhealthy", loads no further script, leaves the script-load effect
\* where it ended, and is not a click on the send button
C29_UnhealthyIsFinal ==
  [][apiHealth = "unhealthy" =>
       /\ apiHealth' = "unhealthy"
       /\ probe'.loads = probe.loads
       /\ probe'.pc = "done"
       /\ ~SendButtonClick]_vars

\* a direct call has succeeded and apiHealth is still "unhealthy"
C29_Witness ==
  /\ apiHealth = "unhealthy"
  /\ probe.pc = "done"
  /\ probe.loads = maxRetries + 1
  /\ ghost.result.status = "ok"
  /\ ghost.result.text = DirectText
  /\ messages # <<>>
  /\ messages[Len(messages)] = [sender |-> "ai", text |-> DirectText]


\* C30: when every pending script load and timer comes to its end,
\* apiHealth is eventually "healthy" or "unhealthy", unless App is
\* unmounted first
C30_HealthEventuallyDecided ==
  <>(apiHealth \in {"healthy", "unhealthy"} \/ ~mounted)

====
